---- MODULE Spec2Model ----
(***************************************************************************)
(* tap_apple_search_ads: the do_sync run of the tap.  A run captures the   *)
(* current time, builds the three authentication stages (client secret,    *)
(* access token, request headers), optionally wraps them with the caching  *)
(* decorators over the shelve store, derives the request headers and then  *)
(* syncs the catalog streams one after another.                            *)
(*                                                                         *)
(* The stages themselves (tap_apple_search_ads.api.auth and its cache      *)
(* decorators) are not part of src/__init__.py; they are modelled from the *)
(* specification (sections 3, 4.1-4.4).                                    *)
(*                                                                         *)
(* Optional values (Python None) are sequences of length at most one:      *)
(* None is <<>> and a present value x is <<x>>.                            *)
(***************************************************************************)
EXTENDS Integers, Sequences, FiniteSets, TLC

\* ---------------------------------------------------------------- bounds
MaxClock == 2
MaxExpiration == 1
MaxLifetime == 2
MaxOpens == 2
MaxCatalog == 2
MaxDay == 1

\* ------------------------------------------------------------- constants
STREAMS ==
    { "campaign",
      "campaign_flat",
      "campaign_level_reports",
      "campaign_level_reports_extended_spend_row",
      "campaign_level_reports_extended_spend_row_flat",
      "impression_share_reports" }

None == <<>>
Some(x) == <<x>>

Orgs == {"org1", "org2"}
Days == 1..MaxDay

\* A catalog may name a stream the tap does not know.
StreamNames == STREAMS \cup {"unknown_stream"}

\* The fields of tap_config.Authentication that the run reads.
Configs ==
    [ local_caching   : BOOLEAN,
      org_id          : Orgs,
      expiration_time : 1..MaxExpiration,
      key_present     : BOOLEAN ]

EmptyStore ==
    [ client_secret |-> None, access_token |-> None, request_headers |-> None ]

VARIABLES
    clock,             \* the system clock (seconds)
    store,             \* the durable shelve file: one entry per stage kind
    cache,             \* the module-level global `cache` (handle or None)
    opens,             \* shelve.open calls made by the current process
    pc,                \* position of the process inside do_sync
    cfg,               \* the run's configuration
    timestamp,         \* do_sync's local `timestamp`
    auth_objects,      \* do_sync's local `auth_objects` (cs, at, rh)
    private_key,       \* do_sync's local `private_key`
    secret,            \* value returned by cs.value(...)
    token,             \* value returned by at.value(...)
    headers,           \* request_headers_value
    signerCalls,       \* invocations of the wrapped signer in this run
    exchCalls,         \* invocations of the wrapped exchanger in this run
    now_used,          \* instant each caching decorator compared against
    error,             \* exception that ended the run, if any
    pre,               \* the store as it was when the run began
    cfg_times,         \* the configured start_time, end_time and selector
    additional_params, \* do_sync's local `additional_params` dict
    state,             \* the Singer state (impression_share_reports bookmark)
    synced             \* sync_stream calls made in this run

vars ==
    << clock, store, cache, opens, pc, cfg, timestamp, auth_objects,
       private_key, secret, token, headers, signerCalls, exchCalls, now_used,
       error, pre, cfg_times, additional_params, state, synced >>

authVars ==
    << cfg, timestamp, auth_objects, private_key, secret, token, headers,
       signerCalls, exchCalls, now_used, pre >>

streamVars == << cfg_times, additional_params, state, synced >>

\* ------------------------------------------------- stages (api.auth)
\* SecretSigner: issued_at is the timestamp the stage was built with.
Sign(cs) ==
    [ issued_at  |-> cs.timestamp,
      expires_at |-> cs.timestamp + cs.expiration_time ]

\* TokenExchanger: the lifetime is declared by the endpoint, relative to
\* the instant of the exchange.
Exchange(t1, lifetime) ==
    [ token |-> t1, expires_at |-> t1 + lifetime ]

\* HeaderBuilder: tenant id and bearer token; inherits the token's expiry.
Build(rh, tok) ==
    [ org_id        |-> rh.org_id,
      authorization |-> tok.token,
      expires_at    |-> tok.expires_at ]

\* CachingProxy step 2: a present entry that has not expired at `now`.
Fresh(entry, now) ==
    /\ entry # None
    /\ entry[1].expires_at > now

\* CachingProxy steps 1-2: the decorated stage is served from the store.
\* An undecorated stage never is.
ProxyHit(stage, entry, now) ==
    /\ stage.cached
    /\ Fresh(entry, now)

\* CachingProxy step 3: the decorated stage persists the value it computed
\* under its key, over any earlier entry.  An undecorated stage writes
\* nothing.
ProxyPut(stage, s, key, v) ==
    IF stage.cached THEN [ s EXCEPT ![key] = Some(v) ] ELSE s

\* ------------------------------------------------------ set_up / caching
SetUpAuthentication_NoExpiration(ts, c) ==
    [ cs |-> [ cached |-> FALSE, timestamp |-> ts, expiration_time |-> 0 ],
      at |-> [ cached |-> FALSE ],
      rh |-> [ cached |-> FALSE, org_id |-> c.org_id ] ]

SetUpAuthentication(ts, c) ==
    [ cs |-> [ cached |-> FALSE, timestamp |-> ts,
               expiration_time |-> c.expiration_time ],
      at |-> [ cached |-> FALSE ],
      rh |-> [ cached |-> FALSE, org_id |-> c.org_id ] ]

AddCaching_PlainSecret(objs) ==
    [ cs |-> objs.cs,
      at |-> [ objs.at EXCEPT !.cached = TRUE ],
      rh |-> [ objs.rh EXCEPT !.cached = TRUE ] ]

AddCaching_PlainToken(objs) ==
    [ cs |-> [ objs.cs EXCEPT !.cached = TRUE ],
      at |-> objs.at,
      rh |-> [ objs.rh EXCEPT !.cached = TRUE ] ]

AddCaching(objs) ==
    [ cs |-> [ objs.cs EXCEPT !.cached = TRUE ],
      at |-> [ objs.at EXCEPT !.cached = TRUE ],
      rh |-> [ objs.rh EXCEPT !.cached = TRUE ] ]

\* len(shelf): the number of keys in the store.
StoreLen(s) ==
    (IF s.client_secret = None THEN 0 ELSE 1)
    + (IF s.access_token = None THEN 0 ELSE 1)
    + (IF s.request_headers = None THEN 0 ELSE 1)

\* `if cache:` - a Shelf is a mapping, so an open shelf with no keys is
\* falsy just as None is.
CacheTruthy(c, s) ==
    /\ c # None
    /\ StoreLen(s) > 0

\* get_or_create_cache: the handle it returns (None when it raises OSError)
\* and the number of shelve.open calls after it.
GetOrCreateCache(c, s, n, dir_exists) ==
    IF CacheTruthy(c, s)
    THEN [ raised |-> FALSE, cache |-> c, opens |-> n ]
    ELSE IF ~dir_exists
         THEN [ raised |-> TRUE, cache |-> c, opens |-> n ]
         ELSE [ raised |-> FALSE, cache |-> Some(n + 1), opens |-> n + 1 ]

LoadPrivateKey_NoRaise(c) ==
    IF c.key_present THEN Some("key") ELSE Some("missing")

\* load_private_key: the key, or None when it raises.
LoadPrivateKey(c) ==
    IF c.key_present THEN Some("key") ELSE None

\* ------------------------------------------------------------- streams
StartTimes == {Some(1)}
EndTimes == {None, Some(MaxDay + 1)}
Bookmarks == {None} \cup {Some(d) : d \in Days}

ReportStreams ==
    { "campaign_level_reports",
      "campaign_level_reports_extended_spend_row",
      "campaign_level_reports_extended_spend_row_flat" }

\* sync_concrete_stream: the state it returns, the `additional` dict after
\* the call (the dict is the caller's, changed in place), the parameters of
\* the report fetch it made, and whether it raised.
SyncConcreteStream(st, name, additional, today, max_date) ==
    IF name \in {"campaign", "campaign_flat"}
    THEN [ raised |-> FALSE, state |-> st, additional |-> additional,
           fetch |-> None ]
    ELSE IF name \in ReportStreams
    THEN [ raised |-> FALSE, state |-> st, additional |-> additional,
           fetch |-> Some([ stream     |-> name,
                            start_time |-> additional.start_time,
                            end_time   |-> additional.end_time,
                            selector   |-> additional.selector ]) ]
    ELSE IF name = "impression_share_reports"
    THEN LET start == IF st # None THEN Some(st[1] + 1)
                      ELSE additional.start_time
             end   == IF additional.end_time = None THEN Some(today - 1)
                      ELSE additional.end_time
             add   == [ additional EXCEPT !.start_time = start,
                                          !.end_time = end ]
             fetch == Some([ stream     |-> name,
                             start_time |-> start,
                             end_time   |-> end,
                             selector   |-> "custom_reports_selector" ])
         IN IF max_date = None
            THEN [ raised |-> TRUE, state |-> st, additional |-> add,
                   fetch |-> fetch ]
            ELSE [ raised |-> FALSE, state |-> max_date, additional |-> add,
                   fetch |-> fetch ]
    ELSE [ raised |-> TRUE, state |-> st, additional |-> additional,
           fetch |-> None ]

\* ---------------------------------------------------------------- Init
\* Values of the run's locals while no run is in progress.
InitCfg ==
    [ local_caching |-> FALSE, org_id |-> "org1",
      expiration_time |-> 1, key_present |-> TRUE ]

InitTimes ==
    [ start_time |-> Some(1), end_time |-> None, selector |-> "selector" ]

\* The shelve file outlives the process: it is empty, or it holds what an
\* earlier cached run for InitCfg's identity wrote at instant 0.
EarlierRunStore ==
    LET objs == SetUpAuthentication(0, InitCfg)
        tok  == Exchange(0, 1)
    IN [ client_secret   |-> Some(Sign(objs.cs)),
         access_token    |-> Some(tok),
         request_headers |-> Some(Build(objs.rh, tok)) ]

InitStores == { EmptyStore, EarlierRunStore }

Init ==
    /\ clock = 0
    /\ store \in InitStores
    /\ cache = None
    /\ opens = 0
    /\ pc = "idle"
    /\ cfg = InitCfg
    /\ timestamp = 0
    /\ auth_objects = SetUpAuthentication(0, cfg)
    /\ private_key = None
    /\ secret = None
    /\ token = None
    /\ headers = None
    /\ signerCalls = 0
    /\ exchCalls = 0
    /\ now_used = [ cs |-> None, at |-> None, rh |-> None ]
    /\ error = None
    /\ pre = EmptyStore
    /\ cfg_times = InitTimes
    /\ additional_params = cfg_times
    /\ state = None
    /\ synced = 0

\* time passes
Tick ==
    /\ clock < MaxClock
    /\ clock' = clock + 1
    /\ UNCHANGED << store, cache, opens, pc, error >>
    /\ UNCHANGED authVars
    /\ UNCHANGED streamVars

Raise(e) ==
    /\ pc' = "aborted"
    /\ error' = Some(e)

\* do_sync, lines 97-102: capture the time once, build the stages.
DoSyncBegin ==
    /\ pc \in {"idle", "aborted"}
    /\ opens < MaxOpens
    /\ \E c \in Configs :
         /\ cfg' = c
         /\ timestamp' = clock
         /\ auth_objects' = SetUpAuthentication(clock, c)
         /\ pc' = IF c.local_caching THEN "cache" ELSE "key"
    /\ private_key' = None
    /\ secret' = None
    /\ token' = None
    /\ headers' = None
    /\ signerCalls' = 0
    /\ exchCalls' = 0
    /\ now_used' = [ cs |-> None, at |-> None, rh |-> None ]
    /\ error' = None
    /\ pre' = store
    /\ cfg_times' = InitTimes
    /\ additional_params' = InitTimes
    /\ state' = None
    /\ synced' = 0
    /\ UNCHANGED << clock, store, cache, opens >>

\* do_sync, lines 104-106: open (or reuse) the shelve store and wrap the
\* stages.  Whether the cache directory exists is the file system's state
\* at the moment of the call.
DoSyncCache ==
    /\ pc = "cache"
    /\ \E dir_exists \in BOOLEAN :
         LET r == GetOrCreateCache(cache, store, opens, dir_exists) IN
           IF r.raised
           THEN /\ Raise("OSError")
                /\ UNCHANGED << cache, opens, auth_objects >>
           ELSE /\ cache' = r.cache
                /\ opens' = r.opens
                /\ auth_objects' = AddCaching(auth_objects)
                /\ pc' = "key"
                /\ error' = error
    /\ UNCHANGED << clock, store, cfg, timestamp, private_key, secret, token,
                    headers, signerCalls, exchCalls, now_used, pre >>
    /\ UNCHANGED streamVars

\* do_sync, line 109.
DoSyncLoadKey ==
    /\ pc = "key"
    /\ LET k == LoadPrivateKey(cfg) IN
         IF k = None
         THEN /\ Raise("TapAppleSearchAdsException")
              /\ private_key' = private_key
         ELSE /\ private_key' = k
              /\ pc' = "cs"
              /\ error' = error
    /\ UNCHANGED << clock, store, cache, opens, cfg, timestamp, auth_objects,
                    secret, token, headers, signerCalls, exchCalls, now_used,
                    pre >>
    /\ UNCHANGED streamVars

\* do_sync, line 111, innermost call: cs.value(private_key).  Python
\* evaluates the arguments of a call before the call, so the secret is
\* derived first, whatever the later stages will need.  The decorator of the
\* signer wraps the stage that was built with the run's timestamp and
\* compares against it.
ClientSecretValue ==
    /\ pc = "cs"
    /\ LET cs  == auth_objects.cs
           now == cs.timestamp
       IN
         /\ now_used' = IF cs.cached
                        THEN [ now_used EXCEPT !.cs = Some(now) ]
                        ELSE now_used
         /\ IF ProxyHit(cs, store.client_secret, now)
            THEN /\ secret' = store.client_secret
                 /\ pc' = "at"
                 /\ UNCHANGED << store, signerCalls, error >>
            ELSE /\ signerCalls' = signerCalls + 1
                 /\ \E sign_ok \in BOOLEAN :
                      IF sign_ok
                      THEN /\ secret' = Some(Sign(cs))
                           /\ store' = ProxyPut(cs, store, "client_secret",
                                                Sign(cs))
                           /\ pc' = "at"
                           /\ error' = error
                      ELSE /\ Raise("SigningError")
                           /\ UNCHANGED << secret, store >>
    /\ UNCHANGED << clock, cache, opens, cfg, timestamp, auth_objects,
                    private_key, token, headers, exchCalls, pre >>
    /\ UNCHANGED streamVars

\* A variant of the exchange step in which the failure of the exchange does
\* not end the run.
AccessTokenValue_Swallow ==
    /\ pc = "at"
    /\ LET at  == auth_objects.at
           now == clock
       IN
         /\ now_used' = IF at.cached
                        THEN [ now_used EXCEPT !.at = Some(now) ]
                        ELSE now_used
         /\ IF ProxyHit(at, store.access_token, now)
            THEN /\ token' = store.access_token
                 /\ UNCHANGED << store, exchCalls >>
            ELSE /\ exchCalls' = exchCalls + 1
                 /\ \E exch_ok \in BOOLEAN, lifetime \in 1..MaxLifetime :
                      IF exch_ok
                      THEN /\ token' = Some(Exchange(clock, lifetime))
                           /\ store' = ProxyPut(at, store, "access_token",
                                                Exchange(clock, lifetime))
                      ELSE UNCHANGED << token, store >>
    /\ pc' = "rh"
    /\ UNCHANGED << clock, cache, opens, cfg, timestamp, auth_objects,
                    private_key, secret, headers, signerCalls, pre, error >>
    /\ UNCHANGED streamVars

\* do_sync, line 111, middle call: at.value(<secret>).  add_caching hands
\* the decorator of the exchanger the stage and the cache only, and the
\* exchanger stage was built without the timestamp: the decorator compares
\* against the clock at the moment of the call.
AccessTokenValue ==
    /\ pc = "at"
    /\ LET at  == auth_objects.at
           now == clock
       IN
         /\ now_used' = IF at.cached
                        THEN [ now_used EXCEPT !.at = Some(now) ]
                        ELSE now_used
         /\ IF ProxyHit(at, store.access_token, now)
            THEN /\ token' = store.access_token
                 /\ pc' = "rh"
                 /\ UNCHANGED << store, exchCalls, error >>
            ELSE /\ exchCalls' = exchCalls + 1
                 /\ \E exch_ok \in BOOLEAN, lifetime \in 1..MaxLifetime :
                      IF exch_ok
                      THEN /\ token' = Some(Exchange(clock, lifetime))
                           /\ store' = ProxyPut(at, store, "access_token",
                                                Exchange(clock, lifetime))
                           /\ pc' = "rh"
                           /\ error' = error
                      ELSE /\ Raise("AuthExchangeError")
                           /\ UNCHANGED << token, store >>
    /\ UNCHANGED << clock, cache, opens, cfg, timestamp, auth_objects,
                    private_key, secret, headers, signerCalls, pre >>
    /\ UNCHANGED streamVars

\* do_sync, line 111, outermost call: rh.value(<token>).  The header
\* builder cannot fail.  Its decorator, like the exchanger's, compares
\* against the clock at the moment of the call.
RequestHeadersValue ==
    /\ pc = "rh"
    /\ token # None
    /\ LET rh  == auth_objects.rh
           now == clock
       IN
         /\ now_used' = IF rh.cached
                        THEN [ now_used EXCEPT !.rh = Some(now) ]
                        ELSE now_used
         /\ IF ProxyHit(rh, store.request_headers, now)
            THEN /\ headers' = store.request_headers
                 /\ store' = store
            ELSE /\ headers' = Some(Build(rh, token[1]))
                 /\ store' = ProxyPut(rh, store, "request_headers",
                                      Build(rh, token[1]))
    /\ pc' = "params"
    /\ UNCHANGED << clock, cache, opens, cfg, timestamp, auth_objects,
                    private_key, secret, token, signerCalls, exchCalls, pre,
                    error >>
    /\ UNCHANGED streamVars

\* do_sync, lines 113-117: the additional parameters are read from the
\* configuration.  The configured times and the Singer state are inputs of
\* the run.  The locals of the authentication phase are not read again by
\* the rest of do_sync and are dropped here; request_headers_value stays.
DoSyncParams ==
    /\ pc = "params"
    /\ \E st \in StartTimes, et \in EndTimes, bm \in Bookmarks :
         /\ cfg_times' = [ start_time |-> st, end_time |-> et,
                           selector |-> "selector" ]
         /\ additional_params' = [ start_time |-> st, end_time |-> et,
                                   selector |-> "selector" ]
         /\ state' = bm
    /\ pc' = "streams"
    /\ cfg' = InitCfg
    /\ timestamp' = 0
    /\ auth_objects' = SetUpAuthentication(0, InitCfg)
    /\ private_key' = None
    /\ secret' = None
    /\ token' = None
    /\ signerCalls' = 0
    /\ exchCalls' = 0
    /\ now_used' = [ cs |-> None, at |-> None, rh |-> None ]
    /\ pre' = EmptyStore
    /\ UNCHANGED << clock, store, cache, opens, headers, error, synced >>

\* do_sync, lines 119-121: one iteration of the loop over catalog.streams.
\* The catalog is an input; its next entry is any stream name, selected or
\* not.  The records of impression_share_reports are an input as well:
\* max_date is the largest date among them, None when there are none.
\* An exception of the stream ends the run and its locals with it.
SyncStream ==
    /\ pc = "streams"
    /\ synced < MaxCatalog
    /\ \E name \in StreamNames, selected \in BOOLEAN :
       \E max_date \in IF selected /\ name = "impression_share_reports"
                       THEN {None} \cup {Some(d) : d \in Days}
                       ELSE {None} :
         IF ~selected
         THEN /\ synced' = synced + 1
              /\ UNCHANGED << additional_params, state, pc, error,
                              cfg_times, headers >>
         ELSE LET r == SyncConcreteStream(state, name, additional_params,
                                          clock, max_date)
              IN IF r.raised
                 THEN /\ Raise("StreamError")
                      /\ headers' = None
                      /\ cfg_times' = InitTimes
                      /\ additional_params' = InitTimes
                      /\ state' = None
                      /\ synced' = 0
                                   ELSE /\ synced' = synced + 1
                      /\ additional_params' = r.additional
                      /\ state' = r.state
                      /\ UNCHANGED << pc, error, cfg_times, headers >>
    /\ UNCHANGED << clock, store, cache, opens, cfg, timestamp, auth_objects,
                    private_key, secret, token, signerCalls, exchCalls,
                    now_used, pre >>

\* do_sync, lines 123-125: the catalog is exhausted and do_sync returns;
\* its locals are gone, the module-level handle stays.
DoSyncDone ==
    /\ pc = "streams"
    /\ pc' = "idle"
    /\ headers' = None
    /\ cfg_times' = InitTimes
    /\ additional_params' = InitTimes
    /\ state' = None
    /\ synced' = 0
    /\ UNCHANGED << clock, store, cache, opens, error, cfg, timestamp,
                    auth_objects, private_key, secret, token, signerCalls,
                    exchCalls, now_used, pre >>

\* The process exits and a new one starts: the module-level global is None
\* again, the shelve file stays.
ProcessRestart ==
    /\ pc \in {"idle", "aborted"}
    /\ cache # None \/ pc = "aborted"
    /\ pc' = "idle"
    /\ cache' = None
    /\ opens' = 0
    /\ cfg' = InitCfg
    /\ timestamp' = 0
    /\ auth_objects' = SetUpAuthentication(0, InitCfg)
    /\ private_key' = None
    /\ secret' = None
    /\ token' = None
    /\ headers' = None
    /\ signerCalls' = 0
    /\ exchCalls' = 0
    /\ now_used' = [ cs |-> None, at |-> None, rh |-> None ]
    /\ error' = None
    /\ pre' = EmptyStore
    /\ cfg_times' = InitTimes
    /\ additional_params' = InitTimes
    /\ state' = None
    /\ synced' = 0
    /\ UNCHANGED << clock, store >>

Next ==
    \/ Tick
    \/ DoSyncBegin
    \/ DoSyncCache
    \/ DoSyncLoadKey
    \/ ClientSecretValue
    \/ AccessTokenValue
    \/ RequestHeadersValue
    \/ DoSyncParams
    \/ SyncStream
    \/ DoSyncDone
    \/ ProcessRestart

Spec == Init /\ [][Next]_vars

\* ================================================================ claims
\* The run has entered the pipeline evaluation of line 111 or has just
\* left it (with the headers derived, or with an exception).
AuthPhase == pc \in {"cs", "at", "rh", "params", "aborted"}

\* The exchanger was invoked in this run and produced no token.
ExchangeFailed == exchCalls > 0 /\ token = None

AuthErrors ==
    { Some("OSError"), Some("TapAppleSearchAdsException"),
      Some("SigningError"), Some("AuthExchangeError") }

\* C1: in a run with local caching whose cache held, when the run began, an
\* AccessToken entry that expires after the run's timestamp, neither the
\* signer nor the exchanger is invoked, whatever the SignedSecret entry is.
C1_CachedTokenSkipsSignerAndExchanger ==
    ( /\ cfg.local_caching
      /\ AuthPhase
      /\ Fresh(pre.access_token, timestamp) )
    => (signerCalls = 0 /\ exchCalls = 0)

\* C2 (as claimed): when the exchange of a run fails, the run ends with an
\* AuthExchangeError and the store is exactly what it was before the run.
C2_FailedExchangeWritesNothing ==
    ExchangeFailed
    => ( /\ pc = "aborted"
         /\ error = Some("AuthExchangeError")
         /\ store = pre )

\* C2 (amended): when the exchange of a run fails, the run ends with an
\* AuthExchangeError, no stream is synced, and the AccessToken and
\* RequestHeaders entries of the store are what they were before the run;
\* the SignedSecret entry differs only when the signer ran in this run
\* because the cached secret was absent or expired, and then it holds the
\* secret just signed.
C2_FailedExchangeWritesNoToken ==
    ExchangeFailed
    => ( /\ pc = "aborted"
         /\ error = Some("AuthExchangeError")
         /\ headers = None
         /\ synced = 0
         /\ store.access_token = pre.access_token
         /\ store.request_headers = pre.request_headers
         /\ store.client_secret # pre.client_secret
              => ( /\ signerCalls = 1
                   /\ ~Fresh(pre.client_secret, timestamp)
                   /\ store.client_secret = secret ) )

\* A failed exchange in a cached run that had to sign a new secret first.
C2_Witness ==
    /\ ExchangeFailed
    /\ cfg.local_caching
    /\ pre.access_token # None
    /\ store.client_secret # pre.client_secret

\* C3: every SignedSecret and AccessToken handed to the next stage expires
\* strictly after the run's timestamp; a cached value that is expired at the
\* timestamp is not the one handed on, the stage is invoked instead.
C3_NoExpiredValueHandedDownstream ==
    /\ secret # None => secret[1].expires_at > timestamp
    /\ token # None => token[1].expires_at > timestamp
    /\ (secret # None /\ ~Fresh(pre.client_secret, timestamp))
         => signerCalls = 1
    /\ (token # None /\ ~Fresh(pre.access_token, timestamp))
         => exchCalls = 1

\* A cached secret that had expired was regenerated and handed on.
C3_Witness ==
    /\ cfg.local_caching
    /\ pre.client_secret # None
    /\ pre.client_secret[1].expires_at <= timestamp
    /\ secret # None
    /\ pc = "at"

\* C4: in a run with local caching whose cache held an AccessToken entry
\* expired at the run's timestamp, the exchanger is invoked at most once,
\* and once at.value has returned it was invoked exactly once and the
\* AccessToken entry of the store is the token exchanged in this run, with
\* its new expiry, in place of the expired one.
C4_ExpiredTokenExchangedOnce ==
    ( /\ cfg.local_caching
      /\ pre.access_token # None
      /\ ~Fresh(pre.access_token, timestamp) )
    => ( /\ exchCalls <= 1
         /\ pc \in {"rh", "params"}
              => ( /\ exchCalls = 1
                   /\ store.access_token = token
                   /\ store.access_token # pre.access_token
                   /\ token[1].token >= timestamp
                   /\ token[1].expires_at > timestamp ) )

\* The headers were derived in a run that began with an expired token entry.
C4_Witness ==
    /\ cfg.local_caching
    /\ pre.access_token # None
    /\ pre.access_token[1].expires_at <= timestamp
    /\ pc = "params"
    /\ exchCalls = 1

\* C5: the headers a run returns, cached or not, carry the configured
\* org_id and a bearer token that is valid at the run's timestamp.
C5_CachedRunReturnsConfiguredHeaders ==
    pc = "params"
    => ( /\ headers # None
         /\ headers[1].org_id = cfg.org_id
         /\ headers[1].expires_at > timestamp )

\* C6: no stream is synced unless the headers were derived: the run passes
\* load_private_key only with a key, every stage is passed only with the
\* value of the stage before it, an error of the authentication phase ends
\* the run with no stream synced, and no stage is invoked twice in a run.
C6_NoStreamBeforeHeaders ==
    /\ pc = "streams" => (headers # None /\ error = None)
    /\ synced > 0 => pc = "streams"
    /\ pc \in {"cs", "at", "rh", "params"}
         => (cfg.key_present /\ private_key # None /\ error = None)
    /\ pc \in {"at", "rh", "params"} => secret # None
    /\ pc \in {"rh", "params"} => token # None
    /\ pc = "params" => headers # None
    /\ (pc = "aborted" /\ error \in AuthErrors)
         => (synced = 0 /\ headers = None)
    /\ signerCalls <= 1
    /\ exchCalls <= 1

\* A run without a private key source ended before any stream.
C6_Witness ==
    /\ pc = "aborted"
    /\ error = Some("TapAppleSearchAdsException")
    /\ ~cfg.key_present
    /\ synced = 0

\* C7: every caching decorator of a run compares against the run's
\* timestamp, and a secret signed in the run is issued at that timestamp.
C7_OneInstantPerRun ==
    /\ \A k \in {"cs", "at", "rh"} :
         now_used[k] # None => now_used[k][1] = timestamp
    /\ (signerCalls = 1 /\ secret # None)
         => secret[1].issued_at = timestamp

\* C8: in a run with local caching whose cache held a SignedSecret entry
\* that expires after the run's timestamp, the signer is not invoked, the
\* secret handed to the exchanger is the cached one and the SignedSecret
\* entry of the store stays what it was.
C8_CachedSecretServed ==
    ( /\ cfg.local_caching
      /\ AuthPhase
      /\ Fresh(pre.client_secret, timestamp) )
    => ( /\ signerCalls = 0
         /\ store.client_secret = pre.client_secret
         /\ pc \in {"at", "rh", "params"} => secret = pre.client_secret
         /\ error # Some("SigningError") )

\* The headers were derived in a run that began with a live secret entry.
C8_Witness ==
    /\ cfg.local_caching
    /\ pre.client_secret # None
    /\ pre.client_secret[1].expires_at > timestamp
    /\ pc = "params"
    /\ secret = pre.client_secret

\* C9: a process opens the shelve store at most once, and the handle it
\* holds is the one of that first open.
C9_StoreOpenedOncePerProcess ==
    /\ opens <= 1
    /\ cache # None => cache = Some(1)

\* C10: during the loop over the catalog the parameters handed to the next
\* stream are the configured start_time, end_time and selector.
C10_ParamsUnchangedAcrossStreams ==
    pc = "streams" => additional_params = cfg_times
====
